---- MODULE Spec2Model ----
(***************************************************************************)
(* Disc-event state machine of cdripper.                                   *)
(*                                                                         *)
(* The model follows the generation of the program made of                 *)
(*   udev_watchdog.UdevWatchdog   (watchdog thread, registry _mounted)     *)
(*   ripper.DiscHandler / Ripper  (one session per HANDLE_DISC)            *)
(*   metadata.CDMetaThread        (lookup thread, creates the tmpdir)      *)
(*   disc_select / ui.dialogs     (SelectDisc, SubmitDisc dialogs)         *)
(*   systemtray.progress          (ProgressDialog, the status sink)        *)
(*   utils                        (cdparanoia, convert2FLAC, cleanup)      *)
(*                                                                         *)
(* Threads: the watchdog thread (UdevWatchdog.run), the Qt main thread     *)
(* (every slot and every dialog callback), one CDMetaThread and one Ripper *)
(* thread per session.  All QObjects are created in the main thread, so a  *)
(* signal emitted from a worker thread is queued to the main thread        *)
(* (variable queue) and a signal emitted in the main thread calls its slot *)
(* at once.  Objects are never garbage collected in the model.             *)
(*                                                                         *)
(* The functions of metadata.CDMetaData that rank releases and build the   *)
(* tag set, and the line parser of utils.cdparanoia_progress, are modelled *)
(* as operators; LibSpec applies one of them to an input drawn from a      *)
(* bounded set (variable call).                                            *)
(***************************************************************************)
EXTENDS Integers, Sequences, FiniteSets, TLC

\* ---------------------------------------------------------------- bounds
\* Devices the host has.
Devs == {"sr0", "sr1"}
\* Insert/eject events the watchdog processes in one run of the model.
MaxEvents == 2
\* Rows of the release table (releases flattened by medium).
MaxRows == 2
\* Seconds on the SelectDisc countdown.  SelectDisc's default is 30
\* (disc_select.py:60); the model counts down from a smaller number.
Timeout == 1
\* "Submitted!" retries of the lookup per session.
MaxRetry == 1
\* Tracks of the disc whose releases are ranked and parsed.
MaxTracks == 3
\* Mediums of one release ('medium-list').
MaxMediums == 2
\* Releases of one search result ('release-list').
MaxReleases == 2
\* Characters of cdparanoia's progress bar.
MaxBar == 4

\* ------------------------------------------------------- program constants
\* disc_select.py:34-36, ui/dialogs.py:13-15
SUBMITTED == 2
RIP == 1
IGNORE == 0

\* ---------------------------------------------------------- Python values
\* Signal arguments keep their Python type: a slot that compares an int to
\* a str finds them unequal.
PyStr(v) == [t |-> "str", v |-> v, n |-> 0]
PyInt(n) == [t |-> "int", v |-> "", n |-> n]
PyEq(a, b) == a.t = b.t /\ a.v = b.v /\ a.n = b.n

\* ----------------------------------------------------------------- state
VARIABLES
    mounted,    \* UdevWatchdog._mounted: dev -> absent | None | a DiscHandler
    wd,         \* watchdog thread: "run" | "quit" | "exited" | "crashed"
    sess,       \* sequence of sessions (DiscHandler and what it owns)
    queue,      \* queued signals waiting for the Qt main thread, FIFO
    widgets,    \* ProgressDialog.widgets: the devices with a ProgressWidget
    asking,     \* devices whose ProgressWidget shows its "Are you sure" question
    impl,       \* which SelectDisc class DiscHandler uses
    host,       \* the optical drives of the host
    nEvents,    \* insert/eject events processed so far
    ejected,    \* history: the device's last insert/eject event was an eject
    inserts,    \* history: qualifying inserts per device since its last eject
    emits,      \* history: HANDLE_DISC signals per device since its last eject
    call        \* one application of a CDMetaData / utils function: input, output

hist == <<ejected, inserts, emits>>
vars == <<mounted, wd, sess, queue, widgets, impl, call, host, asking, nEvents, hist>>

SessIds == 1..Len(sess)

\* The repository holds two SelectDisc classes: disc_select.SelectDisc, whose
\* FINISHED signal is (int, str, dict), and ui.dialogs.SelectDisc, whose
\* FINISHED signal is (str, int, dict).
Impls == {"disc_select", "ui.dialogs"}

\* DiscHandler.__init__ followed by disc_lookup(dev): a CDMetaThread is
\* created and started.
NewSession(d) ==
    [ dev |-> d,
      meta |-> "start",       \* CDMetaThread: start | search | done | dead
      result |-> "none",      \* CDMetaThread.result: none | url | list
      resp |-> "none",        \* what get_releases_by_discid answered or raised
      nrel |-> 0,             \* rows of the result list
      tmpdir |-> FALSE,       \* the directory metadata.tmpdir names exists
      leaked |-> 0,           \* directories of earlier lookups, still on disk
      sel |-> "none",         \* SelectDisc: none | open | closed
      timer |-> FALSE,        \* SelectDisc._timer is active
      timeout |-> 0,          \* SelectDisc._timeout
      row |-> 0,              \* highlighted row of the table
      sub |-> "none",         \* SubmitDisc: none | open | opened | closed
      rip |-> "none",         \* Ripper thread position
      dead |-> FALSE,         \* Ripper._dead
      proc |-> "none",        \* Ripper.proc: none | running | exit0 | exit1 | killed
      release |-> -1,         \* row the Ripper was created with
      flac |-> FALSE,         \* convert2FLAC ran the encoder
      ejects |-> 0,           \* eject commands issued by the Ripper
      cancelled |-> FALSE ]   \* history: a cancellation reached the session

\* The entries of _mounted: no key, the placeholder None, a DiscHandler.
RegAbsent == [k |-> "absent", sid |-> 0]
RegNone == [k |-> "None", sid |-> 0]
RegHandler(i) == [k |-> "handler", sid |-> i]

Msg(type, sid, d, args) == [type |-> type, sid |-> sid, dev |-> d, args |-> args]

\* ------------------------------------------------------------------ Init
\* No function of the library is being applied.
NoCall == [fn |-> "none"]

Boot ==
    /\ mounted = [d \in Devs |-> RegAbsent]
    /\ wd = "run"
    /\ sess = << >>
    /\ queue = << >>
    /\ widgets = {}
    /\ asking = {}
    /\ impl \in Impls
    /\ host = {"sr0"}
    /\ nEvents = 0
    /\ ejected = [d \in Devs |-> FALSE]
    /\ inserts = [d \in Devs |-> 0]
    /\ emits = [d \in Devs |-> 0]

Init ==
    /\ Boot
    /\ call = NoCall

\* ------------------------------------------------------------ watchdog
\* A udev event as the properties UdevWatchdog.run reads.  devname is "none"
\* when the event has no DEVNAME property.
Events ==
    [ devname : Devs \cup {"none"},
      cdrom   : BOOLEAN,     \* ID_CDROM = '1'
      eject   : BOOLEAN,     \* DISK_EJECT_REQUEST is non-empty
      ready0  : BOOLEAN,     \* SYSTEMD_READY = '0'
      change  : BOOLEAN,     \* DISK_MEDIA_CHANGE = '1'
      status  : BOOLEAN ]    \* ID_CDROM_MEDIA_STATE is non-empty

\* The chain of tests of UdevWatchdog.run, in the code's order.
Classify(ev) ==
    IF ev.devname = "none" THEN "skip"
    ELSE IF ~ev.cdrom THEN "skip"
    ELSE IF ev.eject THEN "eject"
    ELSE IF ev.ready0 THEN "eject"
    ELSE IF ~ev.change THEN "skip"
    ELSE IF ev.status THEN "skip"
    ELSE "insert"

\* Some event for device d is classified as kind.
Arrives(d, kind) == {ev \in Events : ev.devname = d /\ Classify(ev) = kind} # {}

\* A membership test that never finds the device.
InMounted_Never(d) == FALSE

\* `dev in self._mounted`: the placeholder None counts as present.
InMounted(d) == mounted[d].k # "absent"

\* QThread.isRunning() of the Ripper thread.
RipperIsRunning(s) == s.rip \notin {"none", "done", "failed"}

\* DiscHandler.isRunning
isRunning(s) == IF s.rip = "none" THEN TRUE ELSE RipperIsRunning(s)

\* A terminate that marks the process killed whatever its state.
RipperTerminate_KillAlways(s) ==
    [s EXCEPT !.dead = TRUE,
              !.cancelled = TRUE,
              !.proc = IF s.proc = "none" THEN s.proc ELSE "killed"]

\* Ripper.terminate(dev), for a Ripper whose dev matches.
RipperTerminate(s) ==
    [s EXCEPT !.dead = TRUE,
              !.cancelled = TRUE,
              !.proc = IF s.proc = "running" THEN "killed" ELSE s.proc]

\* QDialog.close() on the SelectDisc dialog: a visible dialog is rejected,
\* which calls done(0); done() does not stop the countdown timer.
SelectClose(s) == IF s.sel = "open" THEN [s EXCEPT !.sel = "closed"] ELSE s

\* QDialog.close() on the SubmitDisc dialog.
SubmitClose(s) ==
    IF s.sub \in {"open", "opened"} THEN [s EXCEPT !.sub = "closed"] ELSE s

\* QThread.terminate() on the CDMetaThread.
MetaTerminate(s) ==
    IF s.meta \in {"start", "search"} THEN [s EXCEPT !.meta = "dead"] ELSE s

\* The arguments SelectDisc.done emits with FINISHED.
FinishedArgs(d, code, rel) ==
    IF impl = "disc_select"
    THEN <<PyInt(code), PyStr(d), PyInt(rel)>>
    ELSE <<PyStr(d), PyInt(code), PyInt(rel)>>

\* A done() that emits the device whatever the result code.
SubmitFinishedArg_AlwaysDev(d, arg) == PyStr(d)

\* The argument SubmitDisc.done(arg) emits with FINISHED: the empty string
\* for IGNORE, the device for SUBMITTED.
SubmitFinishedArg(d, arg) == IF arg = IGNORE THEN PyStr("") ELSE PyStr(d)

\* The signals the dialogs emit when DiscHandler.terminate closes them from
\* the watchdog thread: they are queued to the main thread.
CloseSignals(i, s) ==
    (IF s.sel = "open"
     THEN << Msg("SEL_FINISHED", i, s.dev, FinishedArgs(s.dev, IGNORE, -1)) >>
     ELSE << >>)
    \o
    (IF s.sub \in {"open", "opened"}
     THEN << Msg("SUB_FINISHED", i, s.dev, << SubmitFinishedArg(s.dev, IGNORE) >>) >>
     ELSE << >>)

\* DiscHandler.terminate up to its last statement: the metadata thread is
\* terminated and the dialogs are closed.
DiscHandlerTerminate(s) ==
    [ SubmitClose(SelectClose(MetaTerminate(s))) EXCEPT !.cancelled = TRUE ]

\* The last statement of DiscHandler.terminate calls Ripper.terminate without
\* its dev argument, which raises TypeError when a Ripper exists.
TerminateRaises(s) == s.rip # "none"

\* History of the events the watchdog has processed.
EjectSeen(d) ==
    /\ ejected' = [ejected EXCEPT ![d] = TRUE]
    /\ inserts' = [inserts EXCEPT ![d] = 0]
    /\ emits' = [emits EXCEPT ![d] = 0]

InsertSeen(d, emitted) ==
    /\ ejected' = [ejected EXCEPT ![d] = FALSE]
    /\ inserts' = [inserts EXCEPT ![d] = @ + 1]
    /\ emits' = [emits EXCEPT ![d] = @ + emitted]

\* The thread is inside the loop of run(): RUNNING was clear when the loop
\* tested it last ("run": it still is, "quit": it has been set since).
InLoop == wd \in {"run", "quit"}

\* The loop comes back to `while not RUNNING.is_set()` after an event: it
\* goes on, or leaves when the flag has been set.
NextPass(w) == IF w = "quit" THEN "exited" ELSE w

\* A poll that waits for an event without a timeout.
PollEnds_Blocking(w) == FALSE

\* self._monitor.poll(timeout=1.0) returns None after a second without an
\* event.
PollEnds(w) == w \in {"run", "quit"}

\* The event was dropped by one of the tests of run().
WdSkip ==
    /\ InLoop
    /\ {ev \in Events : Classify(ev) = "skip"} # {}
    /\ wd' = NextPass(wd)
    /\ UNCHANGED <<mounted, sess, queue, widgets, impl, call, host, asking, nEvents, hist>>

\* RUNNING.set(): a SIGINT or SIGTERM handler, or quit().
Quit ==
    /\ wd = "run"
    /\ wd' = "quit"
    /\ UNCHANGED <<mounted, sess, queue, widgets, impl, call, host, asking, nEvents, hist>>

\* poll returned None and the loop test found the flag set: run() returns.
WdExit ==
    /\ wd = "quit"
    /\ PollEnds(wd)
    /\ wd' = "exited"
    /\ UNCHANGED <<mounted, sess, queue, widgets, impl, call, host, asking, nEvents, hist>>

\* _ejecting(dev) for a device with no DiscHandler registered.
WdEjectNone(d) ==
    /\ InLoop
    /\ Arrives(d, "eject")
    /\ nEvents < MaxEvents
    /\ mounted[d].k \in {"absent", "None"}
    /\ mounted' = [mounted EXCEPT ![d] = RegAbsent]
    /\ nEvents' = nEvents + 1
    /\ EjectSeen(d)
    /\ wd' = NextPass(wd)
    /\ UNCHANGED <<sess, queue, widgets, impl, call, host, asking>>

\* _ejecting(dev) for a device with a DiscHandler registered.
WdEjectHandler(d) ==
    /\ InLoop
    /\ Arrives(d, "eject")
    /\ nEvents < MaxEvents
    /\ mounted[d].k = "handler"
    /\ LET i == mounted[d].sid
           s == sess[i]
       IN  /\ mounted' = [mounted EXCEPT ![d] = RegAbsent]
           /\ IF isRunning(s)
              THEN /\ sess' = [sess EXCEPT ![i] = DiscHandlerTerminate(s)]
                   /\ queue' = queue \o CloseSignals(i, s)
                   /\ wd' = IF TerminateRaises(s) THEN "crashed" ELSE NextPass(wd)
              ELSE /\ wd' = NextPass(wd)
                   /\ UNCHANGED <<sess, queue>>
    /\ nEvents' = nEvents + 1
    /\ EjectSeen(d)
    /\ UNCHANGED <<widgets, impl, call, host, asking>>

\* A qualifying insert for a device that is in _mounted: ignored.
WdInsertDup(d) ==
    /\ InLoop
    /\ Arrives(d, "insert")
    /\ nEvents < MaxEvents
    /\ InMounted(d)
    /\ nEvents' = nEvents + 1
    /\ InsertSeen(d, 0)
    /\ wd' = NextPass(wd)
    /\ UNCHANGED <<mounted, sess, queue, widgets, impl, call, host, asking>>

\* A qualifying insert for a device that is not in _mounted: the placeholder
\* is stored and HANDLE_DISC is emitted (queued to the main thread).
WdInsertNew(d) ==
    /\ InLoop
    /\ Arrives(d, "insert")
    /\ nEvents < MaxEvents
    /\ ~InMounted(d)
    /\ mounted' = [mounted EXCEPT ![d] = RegNone]
    /\ queue' = Append(queue, Msg("HANDLE_DISC", 0, d, << >>))
    /\ nEvents' = nEvents + 1
    /\ InsertSeen(d, 1)
    /\ wd' = NextPass(wd)
    /\ UNCHANGED <<sess, widgets, impl, call, host, asking>>

\* ----------------------------------------------------- main thread: slots
\* UdevWatchdog.handle_disc: the DiscHandler is created and registered.
HandleDisc ==
    /\ queue # << >>
    /\ Head(queue).type = "HANDLE_DISC"
    /\ LET m == Head(queue)
       IN  /\ sess' = Append(sess, NewSession(m.dev))
           /\ mounted' = [mounted EXCEPT ![m.dev] = RegHandler(Len(sess) + 1)]
    /\ queue' = Tail(queue)
    /\ UNCHANGED <<wd, widgets, impl, call, host, asking, nEvents, hist>>

\* --------------------------------------------------- CDMetaThread (lookup)
\* CDMetaThread.run, first statement: gen_tmpdir creates the directory.
MetaStart(i) ==
    /\ sess[i].meta = "start"
    /\ sess' = [sess EXCEPT ![i].meta = "search", ![i].tmpdir = TRUE]
    /\ UNCHANGED <<mounted, wd, queue, widgets, impl, call, host, asking, nEvents, hist>>

\* What searchMusicBrainz gives: a list of n rows, the submission url, or an
\* exception that ends the thread before FINISHED is emitted (the disc cannot
\* be read, the network fails).
\* What musicbrainzngs.get_releases_by_discid can do: return a result with a
\* 'disc' entry (n releases), return a result without one (a CD stub or a
\* fuzzy table-of-contents match), raise ResponseError because the server
\* answered 404 for an unknown disc id, raise ResponseError for any other HTTP
\* error (400, 503...), or raise NetworkError. Before it is called,
\* self.read() of discid.Disc raises DiscError when the drive cannot read the
\* disc ("read_error").
Responses ==
    [kind : {"releases"}, n : 1..MaxRows]
        \cup [kind : {"nodisc", "unknown_id", "bad_response", "network",
                      "read_error"}, n : {0}]

\* The service errors other than "this disc id is unknown".
OtherErrors == {"bad_response", "network"}

\* CDMetaData.searchMusicBrainz: self.read() is outside the try (DiscError
\* leaves the function); the except clause catches ResponseError only
\* (NetworkError leaves the function) and returns the submission url for every
\* ResponseError; so does a result without 'disc'.
searchMusicBrainz(r) ==
    IF r.kind \in {"network", "read_error"} THEN [kind |-> "raise", n |-> 0]
    ELSE IF r.kind \in {"unknown_id", "bad_response"} THEN [kind |-> "url", n |-> 0]
    ELSE IF r.kind = "nodisc" THEN [kind |-> "url", n |-> 0]
    ELSE [kind |-> "list", n |-> r.n]

Outcomes == {searchMusicBrainz(r) : r \in Responses}

\* CDMetaThread.run, the search and the FINISHED signal.
MetaSearch(i, r) ==
    /\ sess[i].meta = "search"
    /\ LET o == searchMusicBrainz(r)
       IN IF o.kind = "raise"
       THEN /\ sess' = [sess EXCEPT ![i].meta = "dead", ![i].resp = r.kind]
            /\ UNCHANGED queue
       ELSE /\ sess' = [sess EXCEPT ![i].meta = "done",
                                    ![i].result = o.kind,
                                    ![i].resp = r.kind,
                                    ![i].nrel = o.n]
            /\ queue' = Append(queue,
                   Msg("META_FINISHED", i, sess[i].dev, << PyStr(sess[i].dev) >>))
    /\ UNCHANGED <<mounted, wd, widgets, impl, call, host, asking, nEvents, hist>>

\* DiscHandler.select_release: the dialog is created and shown, its timer
\* started, its first row selected.
select_release(s) ==
    [s EXCEPT !.sel = "open", !.timer = TRUE, !.timeout = Timeout, !.row = 0]

\* DiscHandler.submit_discid
submit_discid(s) == [s EXCEPT !.sub = "open"]

\* A process_search with a fast path: one row starts the Ripper at once.
process_search_FastPath(s, d) ==
    IF ~PyEq(d, PyStr(s.dev)) THEN s
    ELSE IF s.result = "none" THEN s
    ELSE IF s.result = "url" THEN submit_discid(s)
    ELSE IF s.nrel = 1
         THEN [s EXCEPT !.rip = "start", !.dead = FALSE, !.proc = "none",
                        !.release = 0]
    ELSE select_release(s)

\* DiscHandler.process_search(dev)
process_search(s, d) ==
    IF ~PyEq(d, PyStr(s.dev)) THEN s
    ELSE IF s.result = "none" THEN s
    ELSE IF s.result = "url" THEN submit_discid(s)
    ELSE select_release(s)

ProcessSearch ==
    /\ queue # << >>
    /\ Head(queue).type = "META_FINISHED"
    /\ LET m == Head(queue)
       IN  sess' = [sess EXCEPT ![m.sid] = process_search(sess[m.sid], m.args[1])]
    /\ queue' = Tail(queue)
    /\ UNCHANGED <<mounted, wd, widgets, impl, call, host, asking, nEvents, hist>>

\* DiscHandler.disc_lookup(dev): a new CDMetaThread replaces self.metadata.
\* The directory of the thread it replaces stays on disk.
disc_lookup(s, d) ==
    IF PyEq(d, PyStr("")) THEN s
    ELSE IF ~PyEq(d, PyStr(s.dev)) THEN s
    ELSE [s EXCEPT !.meta = "start", !.result = "none", !.resp = "none", !.nrel = 0,
                   !.tmpdir = FALSE,
                   !.leaked = IF s.tmpdir THEN s.leaked + 1 ELSE s.leaked]

\* `result == IGNORE` in rip_disc.
IsIgnore(code) == PyEq(code, PyInt(IGNORE))

\* DiscHandler.rip_disc(dev, result, release): the slot binds the signal's
\* arguments by position.
rip_disc(s, args) ==
    IF ~PyEq(args[1], PyStr(s.dev)) THEN s
    ELSE IF IsIgnore(args[2]) THEN s
    ELSE [s EXCEPT !.rip = "start", !.dead = FALSE, !.proc = "none",
                   !.release = args[3].n]

\* SelectDisc.done(arg), called in the main thread: the dialog closes, the
\* release of the highlighted row is read when arg is RIP, FINISHED is
\* emitted and rip_disc runs at once.
SelectDone(s, arg) ==
    LET rel == IF arg = RIP THEN s.row ELSE -1
        t == [s EXCEPT !.sel = "closed",
                       !.cancelled = IF arg = IGNORE THEN TRUE ELSE s.cancelled]
    IN  rip_disc(t, FinishedArgs(s.dev, arg, rel))

\* `self._timeout > 0` in SelectDisc._message_timeout.
StillCounting(t) == t > 0

\* --------------------------------------------- main thread: SelectDisc
MainOnly == <<mounted, wd, queue, widgets, impl, call, host, asking, nEvents, hist>>

\* The user highlights another row of the table.
SelRow(i, r) ==
    /\ sess[i].sel = "open"
    /\ r \in 0..(sess[i].nrel - 1)
    /\ r # sess[i].row
    /\ sess' = [sess EXCEPT ![i].row = r]
    /\ UNCHANGED MainOnly

\* SelectDisc.action, the Wait button: the timer is stopped, nothing else.
SelWait(i) ==
    /\ sess[i].sel = "open"
    /\ sess' = [sess EXCEPT ![i].timer = FALSE]
    /\ UNCHANGED MainOnly

\* SelectDisc.action, the Save button.
SelSave(i) ==
    /\ sess[i].sel = "open"
    /\ sess' = [sess EXCEPT ![i] = SelectDone([sess[i] EXCEPT !.timer = FALSE], RIP)]
    /\ UNCHANGED MainOnly

\* SelectDisc.action, the Ignore button.
SelIgnore(i) ==
    /\ sess[i].sel = "open"
    /\ sess' = [sess EXCEPT ![i] = SelectDone([sess[i] EXCEPT !.timer = FALSE], IGNORE)]
    /\ UNCHANGED MainOnly

\* A _message_timeout that forgets to decrement the counter.
message_timeout_NoDecrement(s) ==
    IF StillCounting(s.timeout) THEN s
    ELSE SelectDone([s EXCEPT !.timer = FALSE], RIP)

\* SelectDisc._message_timeout, once a second while the timer is active.
message_timeout(s) ==
    LET t == [s EXCEPT !.timeout = s.timeout - 1]
    IN  IF StillCounting(t.timeout) THEN t
        ELSE SelectDone([t EXCEPT !.timer = FALSE], RIP)

TimerTick(i) ==
    /\ sess[i].timer
    /\ sess' = [sess EXCEPT ![i] = message_timeout(sess[i])]
    /\ UNCHANGED MainOnly

\* DiscHandler.rip_disc reached through a queued FINISHED signal.
RipDiscQueued ==
    /\ queue # << >>
    /\ Head(queue).type = "SEL_FINISHED"
    /\ LET m == Head(queue)
       IN  sess' = [sess EXCEPT ![m.sid] = rip_disc(sess[m.sid], m.args)]
    /\ queue' = Tail(queue)
    /\ UNCHANGED <<mounted, wd, widgets, impl, call, host, asking, nEvents, hist>>

\* --------------------------------------------- main thread: SubmitDisc
\* SubmitDisc.submit: the url is opened, the Submitted! button shown.
SubSubmit(i) ==
    /\ sess[i].sub = "open"
    /\ sess' = [sess EXCEPT ![i].sub = "opened"]
    /\ UNCHANGED MainOnly

\* SubmitDisc.done(arg), called in the main thread: the dialog closes,
\* FINISHED is emitted and disc_lookup runs at once.
SubmitDone(s, arg) ==
    disc_lookup([s EXCEPT !.sub = "closed",
                          !.cancelled = IF arg = IGNORE THEN TRUE ELSE s.cancelled],
                SubmitFinishedArg(s.dev, arg))

\* SubmitDisc.ignore -> done(IGNORE).  submit() takes the Ignore button out
\* of the layout only, so it can also be pressed after the url was opened.
SubIgnore(i) ==
    /\ sess[i].sub \in {"open", "opened"}
    /\ sess' = [sess EXCEPT ![i] = SubmitDone(sess[i], IGNORE)]
    /\ UNCHANGED MainOnly

\* SubmitDisc.submitted -> done(SUBMITTED)
SubSubmitted(i) ==
    /\ sess[i].sub = "opened"
    /\ sess[i].leaked < MaxRetry
    /\ sess' = [sess EXCEPT ![i] = SubmitDone(sess[i], SUBMITTED)]
    /\ UNCHANGED MainOnly

\* DiscHandler.disc_lookup reached through a queued FINISHED signal.
DiscLookupQueued ==
    /\ queue # << >>
    /\ Head(queue).type = "SUB_FINISHED"
    /\ LET m == Head(queue)
       IN  sess' = [sess EXCEPT ![m.sid] = disc_lookup(sess[m.sid], m.args[1])]
    /\ queue' = Tail(queue)
    /\ UNCHANGED <<mounted, wd, widgets, impl, call, host, asking, nEvents, hist>>

\* ------------------------------------------------------------ Ripper thread
RipOnly == <<mounted, wd, widgets, impl, call, host, asking, nEvents, hist>>

\* Ripper.run: ADD_DISC is emitted (queued to the main thread).
RipAddDisc(i) ==
    /\ sess[i].rip = "start"
    /\ sess' = [sess EXCEPT ![i].rip = "launch"]
    /\ queue' = Append(queue, Msg("ADD_DISC", i, sess[i].dev, << >>))
    /\ UNCHANGED RipOnly

\* Ripper.run: self.proc = utils.cdparanoia(dev, tmpdir).  Popen raises when
\* the tool cannot be started, which ends the thread.
RipLaunch(i, ok) ==
    /\ sess[i].rip = "launch"
    /\ sess' = IF ok
               THEN [sess EXCEPT ![i].rip = "progress", ![i].proc = "running"]
               ELSE [sess EXCEPT ![i].rip = "failed"]
    /\ UNCHANGED <<queue, mounted, wd, widgets, impl, call, host, asking, nEvents, hist>>

\* cdparanoia exits by itself, with status 0 or not.
ProcExit(i, ok) ==
    /\ sess[i].proc = "running"
    /\ sess' = [sess EXCEPT ![i].proc = IF ok THEN "exit0" ELSE "exit1"]
    /\ UNCHANGED <<queue, mounted, wd, widgets, impl, call, host, asking, nEvents, hist>>

\* A run() that converts whatever the return code is.
AfterRip_AlwaysConvert(proc) == "convert"

\* A run() that cleans up only after a successful rip.
AfterRip_SkipCleanup(proc) == IF proc = "exit0" THEN "convert" ELSE "eject"

\* Ripper.run after communicate(): convert2FLAC runs when the return code is
\* 0, cleanup comes next otherwise.
AfterRip(proc) == IF proc = "exit0" THEN "convert" ELSE "cleanup"

\* An end of cdparanoia_progress without the final track size.
ProgressEnd_NoFinalSize(i, d) == << Msg("REMOVE_DISC", i, d, << >>) >>

\* The two statements after the loops of cdparanoia_progress:
\* progress.TRACK_SIZE.emit(dev, 100) and progress.REMOVE_DISC.emit(dev).
ProgressEnd(i, d) ==
    << Msg("TRACK_SIZE", i, d, << PyInt(100) >>), Msg("REMOVE_DISC", i, d, << >>) >>

\* The loops of cdparanoia_progress end once the process has ended (poll() is
\* not None, readline() gives b'' at the end of the pipe); the two signals are
\* emitted (queued), then run() waits for the process and branches.
RipProgressEnd(i) ==
    /\ sess[i].rip = "progress"
    /\ sess[i].proc # "running"
    /\ sess' = [sess EXCEPT ![i].rip = AfterRip(sess[i].proc)]
    /\ queue' = queue \o ProgressEnd(i, sess[i].dev)
    /\ UNCHANGED RipOnly

\* utils.convert2FLAC: the encoder runs for the tracks.
RipConvert(i) ==
    /\ sess[i].rip = "convert"
    /\ sess' = [sess EXCEPT ![i].rip = "cleanup", ![i].flac = TRUE]
    /\ UNCHANGED <<queue, mounted, wd, widgets, impl, call, host, asking, nEvents, hist>>

\* utils.cleanup(tmpdir): the files and the directory are removed.
cleanup(s) == [s EXCEPT !.tmpdir = FALSE]

RipCleanup(i) ==
    /\ sess[i].rip = "cleanup"
    /\ sess' = [sess EXCEPT ![i] = [cleanup(sess[i]) EXCEPT !.rip = "eject"]]
    /\ UNCHANGED <<queue, mounted, wd, widgets, impl, call, host, asking, nEvents, hist>>

\* subprocess.call(['eject', dev]); run() returns.
RipEject(i) ==
    /\ sess[i].rip = "eject"
    /\ sess' = [sess EXCEPT ![i].rip = "done", ![i].ejects = @ + 1]
    /\ UNCHANGED <<queue, mounted, wd, widgets, impl, call, host, asking, nEvents, hist>>

\* ------------------------------------------- main thread: ProgressDialog
\* ProgressDialog.add_disc
add_disc(w, d) == w \cup {d}

\* ProgressDialog.remove_disc: widgets.pop(dev, None)
remove_disc(w, d) == w \ {d}

AddDisc ==
    /\ queue # << >>
    /\ Head(queue).type = "ADD_DISC"
    /\ widgets' = add_disc(widgets, Head(queue).dev)
    /\ queue' = Tail(queue)
    /\ UNCHANGED <<mounted, wd, sess, impl, call, host, asking, nEvents, hist>>

RemoveDisc ==
    /\ queue # << >>
    /\ Head(queue).type = "REMOVE_DISC"
    /\ widgets' = remove_disc(widgets, Head(queue).dev)
    /\ queue' = Tail(queue)
    /\ UNCHANGED <<mounted, wd, sess, impl, call, host, asking, nEvents, hist>>

\* ProgressDialog.track_size: the device's widget, if there is one, sets its
\* progress bars.
TrackSize ==
    /\ queue # << >>
    /\ Head(queue).type = "TRACK_SIZE"
    /\ queue' = Tail(queue)
    /\ UNCHANGED <<mounted, wd, sess, widgets, impl, call, host, asking, nEvents, hist>>

\* A terminate slot without the test of the device.
DeliverCancel_All(ss, d) ==
    [i \in 1..Len(ss) |->
        IF ss[i].rip # "none" THEN RipperTerminate(ss[i]) ELSE ss[i]]

\* The CANCEL signal of the ProgressDialog reaches every Ripper (each one
\* connected its terminate slot); terminate() returns at once for another dev.
DeliverCancel(ss, d) ==
    [i \in 1..Len(ss) |->
        IF ss[i].rip # "none" /\ ss[i].dev = d THEN RipperTerminate(ss[i]) ELSE ss[i]]

\* ProgressWidget.cancel, from the "Cancel Rip" button of the device's
\* widget: the question box opens.  It runs its own event loop, so queued
\* signals go on being delivered while it is open.
ProgressAsk(d) ==
    /\ d \in widgets
    /\ d \notin asking
    /\ asking' = asking \cup {d}
    /\ UNCHANGED <<mounted, wd, sess, queue, widgets, impl, call, host, nEvents, hist>>

\* The user answers No: nothing is emitted.
ProgressNo(d) ==
    /\ d \in asking
    /\ asking' = asking \ {d}
    /\ UNCHANGED <<mounted, wd, sess, queue, widgets, impl, call, host, nEvents, hist>>

\* The user answers Yes: the widget emits CANCEL(dev), ProgressDialog.cancel
\* emits CANCEL and then REMOVE_DISC; both slots run at once.
ProgressCancel(d) ==
    /\ d \in asking
    /\ asking' = asking \ {d}
    /\ sess' = DeliverCancel(sess, d)
    /\ widgets' = remove_disc(widgets, d)
    /\ UNCHANGED <<mounted, wd, queue, impl, call, host, nEvents, hist>>

\* ------------------------------------------------------------------ Next
Next ==
    \/ WdSkip
    \/ Quit
    \/ WdExit
    \/ \E d \in host : WdEjectNone(d)
    \/ \E d \in host : WdEjectHandler(d)
    \/ \E d \in host : WdInsertDup(d)
    \/ \E d \in host : WdInsertNew(d)
    \/ HandleDisc
    \/ ProcessSearch
    \/ RipDiscQueued
    \/ DiscLookupQueued
    \/ AddDisc
    \/ RemoveDisc
    \/ TrackSize
    \/ \E d \in Devs : ProgressAsk(d)
    \/ \E d \in Devs : ProgressNo(d)
    \/ \E d \in Devs : ProgressCancel(d)
    \/ \E i \in SessIds : MetaStart(i)
    \/ \E i \in SessIds, r \in Responses : MetaSearch(i, r)
    \/ \E i \in SessIds, r \in 0..(MaxRows - 1) : SelRow(i, r)
    \/ \E i \in SessIds : SelWait(i)
    \/ \E i \in SessIds : SelSave(i)
    \/ \E i \in SessIds : SelIgnore(i)
    \/ \E i \in SessIds : TimerTick(i)
    \/ \E i \in SessIds : SubSubmit(i)
    \/ \E i \in SessIds : SubIgnore(i)
    \/ \E i \in SessIds : SubSubmitted(i)
    \/ \E i \in SessIds : RipAddDisc(i)
    \/ \E i \in SessIds, ok \in BOOLEAN : RipLaunch(i, ok)
    \/ \E i \in SessIds, ok \in BOOLEAN : ProcExit(i, ok)
    \/ \E i \in SessIds : RipProgressEnd(i)
    \/ \E i \in SessIds : RipConvert(i)
    \/ \E i \in SessIds : RipCleanup(i)
    \/ \E i \in SessIds : RipEject(i)

Spec == Init /\ [][Next]_vars

\* ------------------------------------------------------------- scheduling
\* The Qt event loop of the main thread delivers every queued signal.
MainLoop ==
    \/ HandleDisc
    \/ ProcessSearch
    \/ RipDiscQueued
    \/ DiscLookupQueued
    \/ AddDisc
    \/ RemoveDisc
    \/ TrackSize

\* The active QTimer of session i fires.
TimerTickOf(i) == i \in SessIds /\ TimerTick(i)

\* The worker threads of session i (CDMetaThread.run, Ripper.run) advance.
ThreadStep(i) ==
    /\ i \in SessIds
    /\ \/ MetaStart(i)
       \/ \E r \in Responses : MetaSearch(i, r)
       \/ RipAddDisc(i)
       \/ \E ok \in BOOLEAN : RipLaunch(i, ok)
       \/ RipProgressEnd(i)
       \/ RipConvert(i)
       \/ RipCleanup(i)
       \/ RipEject(i)

\* Spec with the scheduling the program runs under: the event loop runs, an
\* active timer fires, a started thread runs.  Nothing is assumed of the
\* user, of the udev events or of the time cdparanoia takes.
FairSpec ==
    /\ Spec
    /\ WF_vars(MainLoop)
    /\ WF_vars(WdExit)
    /\ \A i \in 1..MaxEvents : WF_vars(TimerTickOf(i)) /\ WF_vars(ThreadStep(i))

\* ------------------------------------------------------------ two drives
\* The session of a disc whose lookup gave one release and whose Save button
\* was pressed: rip_disc has created the Ripper and started its thread.
Extracting(d) ==
    [select_release([NewSession(d) EXCEPT !.meta = "done", !.tmpdir = TRUE,
                                          !.result = "list", !.resp = "releases",
                                          !.nrel = 1])
        EXCEPT !.sel = "closed", !.timer = FALSE, !.rip = "start", !.release = 0]

\* A host with two drives, a disc in each, both sessions at the start of
\* their extraction (ui.dialogs, the dialogs whose FINISHED reaches rip_disc).
TwoInit ==
    /\ mounted = [d \in Devs |-> RegHandler(IF d = "sr0" THEN 1 ELSE 2)]
    /\ wd = "run"
    /\ sess = << Extracting("sr0"), Extracting("sr1") >>
    /\ queue = << >>
    /\ widgets = {}
    /\ asking = {}
    /\ impl = "ui.dialogs"
    /\ host = Devs
    /\ nEvents = 0
    /\ ejected = [d \in Devs |-> FALSE]
    /\ inserts = [d \in Devs |-> 1]
    /\ emits = [d \in Devs |-> 1]
    /\ call = NoCall

\* The extractions run, the user cancels in the progress dialog, the drives
\* send eject events; no further disc is inserted.
TwoNext ==
    \/ \E d \in host : WdEjectNone(d)
    \/ \E d \in host : WdEjectHandler(d)
    \/ AddDisc
    \/ RemoveDisc
    \/ TrackSize
    \/ \E d \in Devs : ProgressAsk(d)
    \/ \E d \in Devs : ProgressNo(d)
    \/ \E d \in Devs : ProgressCancel(d)
    \/ \E i \in SessIds : RipAddDisc(i)
    \/ \E i \in SessIds, ok \in BOOLEAN : RipLaunch(i, ok)
    \/ \E i \in SessIds, ok \in BOOLEAN : ProcExit(i, ok)
    \/ \E i \in SessIds : RipProgressEnd(i)
    \/ \E i \in SessIds : RipConvert(i)
    \/ \E i \in SessIds : RipCleanup(i)
    \/ \E i \in SessIds : RipEject(i)

TwoSpec == TwoInit /\ [][TwoNext]_vars

\* ============================================== library: release ranking
\* CDMetaData.filterReleases and the two medium filters are functions of the
\* disc that was read (self.tracks, self.last_track_num) and of the releases
\* MusicBrainz returned.  Variable call holds one application: its input is
\* drawn in LibInit, its output is written by the action that applies the
\* function.

\* The program state, which no library action touches.
program == <<mounted, wd, sess, queue, widgets, impl, host, asking, nEvents, hist>>

Codes == {"A", "B"}

\* track.isrc of a disc track: a code, or '' when the disc carries none.
DiscIsrcs == Codes \cup {""}

\* self.tracks of a disc with n tracks (the isrc of each).
DiscsOf(n) == [1..n -> DiscIsrcs]

\* track['recording'] of a medium track: with or without an 'isrc-list'.
Recording(list) == [haslist |-> TRUE, isrcs |-> list]
NoList == [haslist |-> FALSE, isrcs |-> {}]
Recordings == {NoList} \cup {Recording({c}) : c \in Codes}

\* medium['format'] as the characters of the string.
CD == <<"C", "D">>
SACD == <<"S", "A", "C", "D">>
DVD == <<"D", "V", "D">>

\* A medium: 'format', 'track-count' and the recordings of its 'track-list'.
Medium(f, t) == [format |-> f, count |-> Len(t), tracks |-> t]

\* Python's  sub in text  for strings.
Contains(sub, text) ==
    \E k \in 0..(Len(text) - Len(sub)) : SubSeq(text, k + 1, k + Len(sub)) = sub

IndexOfMax_Last(l) ==
    CHOOSE k \in 1..Len(l) :
        /\ \A j \in 1..Len(l) : l[j] <= l[k]
        /\ \A j \in (k + 1)..Len(l) : l[j] < l[k]

\* list.index(max(list)) of a non-empty list of numbers: the first maximum.
IndexOfMax(l) ==
    CHOOSE k \in 1..Len(l) :
        /\ \A j \in 1..Len(l) : l[j] <= l[k]
        /\ \A j \in 1..(k - 1) : l[j] < l[k]

last_track_num(disc) == Len(disc)

nMatch_IgnoreTrackCount(disc, medium) ==
    Cardinality({i \in 1..Len(medium.tracks) :
                    /\ i <= Len(disc)
                    /\ disc[i] # ""
                    /\ medium.tracks[i].haslist
                    /\ disc[i] \in medium.tracks[i].isrcs})

\* The body of the loop of filterMediumByISRCs: medium['isrc-matches'].
nMatch(disc, medium) ==
    IF medium.count # last_track_num(disc) THEN 0
    ELSE Cardinality({i \in 1..Len(medium.tracks) :
                         /\ disc[i] # ""
                         /\ medium.tracks[i].haslist
                         /\ disc[i] \in medium.tracks[i].isrcs})

NoMedium == [found |-> FALSE, index |-> 0, matches |-> 0, scores |-> << >>]

\* filterMediumByISRCs: None for an empty list, else the first medium with
\* the most matches (index is its place in medium_list; scores are the
\* 'isrc-matches' the loop leaves on every medium).
filterMediumByISRCs(disc, medium_list) ==
    IF medium_list = << >> THEN NoMedium
    ELSE LET isrcMatches == [k \in 1..Len(medium_list) |-> nMatch(disc, medium_list[k])]
             k == IndexOfMax(isrcMatches)
         IN  [found |-> TRUE, index |-> k, matches |-> isrcMatches[k],
              scores |-> isrcMatches]

IsFormat(medium) == Contains(CD, medium.format)

filterMediumByFormat(medium_list) == SelectSeq(medium_list, IsFormat)

\* One pass of the loop of filterReleases over a release (its 'medium-list'):
\* whether the release adds an entry to isrcMatches, and which.
Candidate(disc, release) ==
    LET cds == filterMediumByFormat(release)
        medium == filterMediumByISRCs(disc, cds)
    IN  IF release = << >> \/ cds = << >> \/ ~medium.found
        THEN [kept |-> FALSE, score |-> 0]
        ELSE [kept |-> TRUE, score |-> medium.matches]

IsKept(c) == c.kept

\* The list isrcMatches at the end of the loop: one entry per kept release.
isrcMatches(disc, releases) ==
    LET kept == SelectSeq([i \in 1..Len(releases) |-> Candidate(disc, releases[i])],
                          IsKept)
    IN  [j \in 1..Len(kept) |-> kept[j].score]

\* filterReleases: the place in releases of the release it returns, or the
\* IndexError of releases[0] on an empty list.  The index found in isrcMatches
\* is used on releases as it is.
filterReleases(disc, releases) ==
    LET m == isrcMatches(disc, releases)
    IN  IF Len(m) = 0
        THEN IF releases = << >> THEN [kind |-> "raise", index |-> 0]
             ELSE [kind |-> "release", index |-> 1]
        ELSE [kind |-> "release", index |-> IndexOfMax(m)]

\* ---- inputs
SeqsUpTo(S, lo, hi) == UNION {[1..n -> S] : n \in lo..hi}

\* Inputs of filterMediumByISRCs: every disc of MaxTracks tracks, one or two
\* mediums of MaxTracks - 1 or MaxTracks tracks with any recordings.
MediumsOf(fs, n) == {Medium(f, t) : f \in fs, t \in [1..n -> Recordings]}
MediumInputs ==
    [fn : {"filterMediumByISRCs"},
     disc : DiscsOf(MaxTracks),
     arg : SeqsUpTo(MediumsOf({CD}, MaxTracks - 1) \cup MediumsOf({CD}, MaxTracks),
                    1, 2),
     done : {FALSE},
     out : {NoMedium}]

\* Inputs of filterReleases: the disc [A, B, '', ...] and the disc without
\* ISRCs; releases of up to MaxMediums mediums: a CD that matches the first
\* disc in two tracks, an SACD that matches it in one, a DVD.
DiscAB == [i \in 1..MaxTracks |-> IF i = 1 THEN "A" ELSE IF i = 2 THEN "B" ELSE ""]
DiscBlank == [i \in 1..MaxTracks |-> ""]
TracksAB(n) ==
    [i \in 1..n |-> IF i = 1 THEN Recording({"A"})
                    ELSE IF i = 2 THEN Recording({"B"}) ELSE NoList]
TracksA(n) == [i \in 1..n |-> IF i = 1 THEN Recording({"A"}) ELSE NoList]
ReleaseMediums ==
    {Medium(CD, TracksAB(MaxTracks)),
     Medium(SACD, TracksA(MaxTracks)),
     Medium(DVD, TracksAB(MaxTracks))}
Releases == SeqsUpTo(ReleaseMediums, 0, MaxMediums)
\* Responses of up to MaxReleases releases, and the responses of one release
\* more whose releases have one medium each.
ReleaseLists ==
    SeqsUpTo(Releases, 0, MaxReleases)
        \cup [1..(MaxReleases + 1) -> {<< m >> : m \in ReleaseMediums}]
ReleaseInputs ==
    [fn : {"filterReleases"},
     disc : {DiscAB, DiscBlank},
     arg : ReleaseLists,
     done : {FALSE},
     out : {[kind |-> "none", index |-> 0]}]

ApplyFilterMediumByISRCs ==
    /\ call.fn = "filterMediumByISRCs"
    /\ ~call.done
    /\ call' = [call EXCEPT !.done = TRUE,
                            !.out = filterMediumByISRCs(call.disc, call.arg)]
    /\ UNCHANGED program

ApplyFilterReleases ==
    /\ call.fn = "filterReleases"
    /\ ~call.done
    /\ call' = [call EXCEPT !.done = TRUE,
                            !.out = filterReleases(call.disc, call.arg)]
    /\ UNCHANGED program

\* ================================================== library: parseRelease
\* Python's None.
None == "<None>"

Digits == <<"0", "1", "2", "3", "4", "5", "6", "7", "8", "9">>

DigitValue(c) == (CHOOSE d \in 1..Len(Digits) : Digits[d] = c) - 1

\* int(text) for a string of decimal digits.
RECURSIVE int(_)
int(text) ==
    IF text = << >> THEN 0
    ELSE 10 * int(SubSeq(text, 1, Len(text) - 1)) + DigitValue(text[Len(text)])

\* track['number'] as the characters of the string; NoNumber: the key is
\* missing and track.get('number', '0') gives '0'.
NoNumber == << >>
NumberOf(n) == << Digits[n + 1] >>
Numbers == {NoNumber, <<"0", "1">>} \cup {NumberOf(n) : n \in 1..MaxTracks}

track_num(track) == IF track = NoNumber THEN int(<<"0">>) ELSE int(track)

\* What the cover art service does for release['id']: a list with a front
\* image that downloads, a list with one whose download fails, a list without
\* a front image, ResponseError, NetworkError.
Images == {"front", "download_error", "nofront", "response_error", "network_error"}

\* getCoverArt: the local path, None (_download catches every exception of
\* urlopen), or the NetworkError of get_image_list it does not catch.
getCoverArt(image) ==
    IF image = "front" THEN "coverart.jpg"
    ELSE IF image = "network_error" THEN "raise"
    ELSE None

\* release.get(key, '') for 'title' and 'artist-credit-phrase'.
get(release, key) ==
    IF release.named THEN (IF key = "title" THEN "Title" ELSE "Artist") ELSE ""

album_info(release) ==
    [album |-> get(release, "title"),
     albumartist |-> get(release, "artist-credit-phrase"),
     totaltracks |-> Len(release.tracks)]

\* The record of the i-th track of the medium (src: the track it was built
\* from, standing for its title and MusicBrainz ids).
TrackRecord(disc, release, i, cover) ==
    [album |-> album_info(release).album,
     albumartist |-> album_info(release).albumartist,
     tracknumber |-> track_num(release.tracks[i]),
     isrc |-> disc[i],
     cover |-> cover,
     src |-> i]

RaisedTags == [kind |-> "raise", tracks |-> << >>]
EmptyTags == [kind |-> "empty", tracks |-> << >>]

\* The loop of parseRelease from its i-th pass on, tracks being the records
\* stored so far: return [] on a number already stored; self.tracks[i] raises
\* IndexError when the disc has fewer than i tracks.
RECURSIVE parseTracks(_, _, _, _, _)
parseTracks(disc, release, cover, i, tracks) ==
    IF i > Len(release.tracks) THEN [kind |-> "tags", tracks |-> tracks]
    ELSE LET n == track_num(release.tracks[i])
         IN  IF n \in DOMAIN tracks THEN EmptyTags
             ELSE IF i > Len(disc) THEN RaisedTags
             ELSE parseTracks(disc, release, cover, i + 1,
                      (n :> TrackRecord(disc, release, i, cover)) @@ tracks)

\* parseRelease: kind "tags" with the records by track number (the key
\* 'album_info' is beside them), "empty" for [], "raise" for an exception.
parseRelease(disc, release) ==
    LET cover == getCoverArt(release.image)
    IN  IF cover = "raise" THEN RaisedTags
        ELSE parseTracks(disc, release, cover, 1, << >>)

\* Inputs of parseRelease: discs of 1..MaxTracks tracks, releases whose chosen
\* medium has 1..MaxTracks tracks with any of the numbers.
ParseInputs ==
    [fn : {"parseRelease"},
     disc : {SubSeq(DiscAB, 1, n) : n \in 1..MaxTracks},
     arg : [named : BOOLEAN, image : Images, tracks : SeqsUpTo(Numbers, 1, MaxTracks)],
     done : {FALSE},
     out : {[kind |-> "none", tracks |-> << >>]}]

ApplyParseRelease ==
    /\ call.fn = "parseRelease"
    /\ ~call.done
    /\ call' = [call EXCEPT !.done = TRUE,
                            !.out = parseRelease(call.disc, call.arg)]
    /\ UNCHANGED program

\* ============================================ library: progress parsing
\* A line of cdparanoia's output after strip(), as a sequence of pieces: the
\* fixed texts the two patterns look for, single characters, and filler.
Outputting == "outputting to "
Track == "track"
BarOpen == "== PROGRESS == ["
Pipe == "|"
Blank == " "

IsDigit(c) == \E d \in 1..Len(Digits) : Digits[d] = c

\* The longest run of digits of line from place k on: what (\d+) takes.
RECURSIVE DigitRun(_, _)
DigitRun(line, k) ==
    IF k > Len(line) \/ ~IsDigit(line[k]) THEN << >>
    ELSE << line[k] >> \o DigitRun(line, k + 1)

\* re.search(CURRENT, line): the places where "outputting to " is followed at
\* once by "track" and a digit.
CurrentAt(line) ==
    {k \in 1..Len(line) :
        /\ line[k] = Outputting
        /\ k + 2 <= Len(line)
        /\ line[k + 1] = Track
        /\ IsDigit(line[k + 2])}

Least(S) == CHOOSE x \in S : \A y \in S : x <= y

\* re.search(PROGRESS, line): the places of "== PROGRESS == [" that have a
\* "|" somewhere after them.
ProgressAt(line) ==
    {k \in 1..Len(line) :
        /\ line[k] = BarOpen
        /\ \E j \in (k + 1)..Len(line) : line[j] = Pipe}

\* group(1) of the match: the pieces between the bracket and the first "|".
ProgressGroup(line) ==
    LET k == Least(ProgressAt(line))
        j == Least({j \in (k + 1)..Len(line) : line[j] = Pipe})
    IN  SubSeq(line, k + 1, j - 1)

NoPosSize == [found |-> FALSE, pos |-> 0, size |-> 0]

\* As parse_progress_line, with prog.end() in the place of prog.start().
parse_progress_line_End(line) ==
    IF ProgressAt(line) = {} THEN NoPosSize
    ELSE LET m == ProgressGroup(line)
             S == {p \in 1..Len(m) : m[p] # Blank}
         IN  IF S = {} THEN NoPosSize
             ELSE [found |-> TRUE, pos |-> Least(S), size |-> Len(m)]

\* parse_progress_line: None, or (start of the first non-blank, length).
parse_progress_line(line) ==
    IF ProgressAt(line) = {} THEN NoPosSize
    ELSE LET m == ProgressGroup(line)
             S == {p \in 1..Len(m) : m[p] # Blank}
         IN  IF S = {} THEN NoPosSize
             ELSE [found |-> TRUE, pos |-> Least(S) - 1, size |-> Len(m)]

round_Floor(num, den) == num \div den

\* round(num / den) of Python 3 for num >= 0, den > 0: to the nearest integer,
\* a half to the even one.
round(num, den) ==
    LET q == num \div den
        r == num % den
    IN  IF 2 * r < den THEN q
        ELSE IF 2 * r > den THEN q + 1
        ELSE IF q % 2 = 0 THEN q ELSE q + 1

NoEvent == [signal |-> "none", value |-> 0]

\* One pass of the inner loop of cdparanoia_progress over a line, prog being
\* the position last reported: the signal emitted and the new prog.
progress_line(prog, line) ==
    IF line = << >> THEN [event |-> NoEvent, prog |-> prog]
    ELSE IF CurrentAt(line) # {}
    THEN [event |-> [signal |-> "CUR_TRACK",
                     value |-> int(DigitRun(line, Least(CurrentAt(line)) + 2))],
          prog |-> prog]
    ELSE LET pos_size == parse_progress_line(line)
         IN  IF ~pos_size.found THEN [event |-> NoEvent, prog |-> prog]
             ELSE IF pos_size.pos # prog
             THEN [event |-> [signal |-> "TRACK_SIZE",
                              value |-> round(pos_size.pos * 100, pos_size.size)],
                   prog |-> pos_size.pos]
             ELSE [event |-> NoEvent, prog |-> prog]

\* ---- inputs
\* "outputting to [output.]track<digits><rest>"
CurrentLines ==
    {<<Outputting>> \o mid \o <<Track>> \o num \o <<rest>> :
        mid \in {<< >>, <<"output.">>},
        num \in SeqsUpTo({"0", "1", "3"}, 0, 2),
        rest \in {".cdda.wav", ".wav.cdda"}}

\* The progress bar: blanks and marks.
Bars == SeqsUpTo({Blank, ">"}, 0, MaxBar)

BarLine(pre, bar, close) == pre \o <<BarOpen>> \o bar \o <<close, " 001234 00 ] == :^D * ==">>

BarLines ==
    {BarLine(pre, bar, close) :
        pre \in {<< >>, <<"##: -2 [wrote] @ 1234">>}, bar \in Bars, close \in {Pipe, "]"}}

OtherLines ==
    {<< >>, <<"Ripping from sector       0 (track  1 [0:00.00])">>,
     <<Track, "0", "3">>, <<Outputting>>, <<Outputting, Track>>}

ProgressInputs ==
    [fn : {"progress_line"},
     prog : 0..(MaxBar - 1),
     arg : CurrentLines \cup BarLines \cup OtherLines,
     done : {FALSE},
     out : {[event |-> NoEvent, prog |-> 0]}]

ApplyProgressLine ==
    /\ call.fn = "progress_line"
    /\ ~call.done
    /\ call' = [call EXCEPT !.done = TRUE,
                            !.out = progress_line(call.prog, call.arg)]
    /\ UNCHANGED program

\* ---- the whole of cdparanoia_progress
\* Lines the loops of cdparanoia_progress read before the process ends.
MaxLines == 2

\* The signal progress_line emits, as the message queued for the main thread.
Emit(i, d, event) ==
    IF event.signal = "none" THEN << >>
    ELSE << Msg(event.signal, i, d, << PyInt(event.value) >>) >>

\* The two loops of cdparanoia_progress over the lines read while poll() is
\* None, from line k on: the messages emitted and the positions reported.
RECURSIVE progressLoop(_, _, _, _, _)
progressLoop(i, d, prog, lines, k) ==
    IF k > Len(lines) THEN [emitted |-> << >>, reported |-> << >>]
    ELSE LET step == progress_line(prog, lines[k])
             rest == progressLoop(i, d, step.prog, lines, k + 1)
         IN  [emitted |-> Emit(i, d, step.event) \o rest.emitted,
              reported |-> (IF step.event.signal = "TRACK_SIZE"
                            THEN << step.prog >> ELSE << >>) \o rest.reported]

\* cdparanoia_progress(dev, proc, progress): prog = 0, the loops, then the
\* two closing signals.
cdparanoia_progress(i, d, lines) ==
    LET loop == progressLoop(i, d, 0, lines, 1)
    IN  [emitted |-> loop.emitted \o ProgressEnd(i, d),
         reported |-> loop.reported]

LoopLines ==
    {BarLine(<< >>, bar, Pipe) : bar \in Bars}
        \cup {<<Outputting, Track, "0", "3", ".cdda.wav">>, << >>}

LoopInputs ==
    [fn : {"cdparanoia_progress"},
     dev : Devs,
     arg : SeqsUpTo(LoopLines, 0, MaxLines),
     done : {FALSE},
     out : {[emitted |-> << >>, reported |-> << >>]}]

ApplyCdparanoiaProgress ==
    /\ call.fn = "cdparanoia_progress"
    /\ ~call.done
    /\ call' = [call EXCEPT !.done = TRUE,
                            !.out = cdparanoia_progress(1, call.dev, call.arg)]
    /\ UNCHANGED program

\* ================================================ library: convert2FLAC
\* An entry of the working directory: whether its name ends with '.wav' and
\* the number re.search(TRACK_NUM, name) finds in it, NoTrack when the pattern
\* does not match.
NoTrack == -1
Entries == [wav : BOOLEAN, track : {NoTrack} \cup 1..MaxTracks]

\* utils.listdir: the entries that end with '.wav' and carry a track number,
\* in the order os.listdir gave them.
IsRaw(item) == item.wav /\ item.track # NoTrack
listdir(directory) == SelectSeq(directory, IsRaw)

\* str(n) and '{:02d}'.format(n) for n >= 0, as sequences of characters.
RECURSIVE str(_)
str(n) ==
    IF n < 10 THEN << Digits[n + 1] >>
    ELSE str(n \div 10) \o << Digits[(n % 10) + 1] >>

Format02d(n) == IF Len(str(n)) < 2 THEN <<"0">> \o str(n) ELSE str(n)

\* The name convert2FLAC gives the flac file of a record: the title goes in
\* as it is.
outFile(info) ==
    LET base == Format02d(info.tracknumber) \o <<" - ">> \o info.title \o <<".flac">>
    IN  IF info.totaldiscs > 1
        THEN str(info.discnumber) \o <<"-">> \o base
        ELSE base

\* tracks.get(track_num): the tag set has records for the numbers in
\* tracks.keys, all with the album's values and, here, the same title.
Info(tracks, n) ==
    [tracknumber |-> n, title |-> tracks.title, totaldiscs |-> tracks.totaldiscs,
     discnumber |-> tracks.discnumber, cover |-> tracks.cover]

\* The branch of a file whose number has no record, without its os.remove.
remove_Nothing(acc, infile) == acc

\* os.remove(infile); continue
remove(acc, infile) == [acc EXCEPT !.removed = @ \cup {infile}]

\* coverart = info.pop('cover-art') when the record has the entry, then
\* Popen(['flac', ..., '--output-name=...', infile]), the process exiting
\* with returncode.  popped: the track numbers whose record in tracks has
\* lost its 'cover-art' entry.
flac(acc, infile, info, returncode) ==
    [acc EXCEPT !.cmds = Append(@, [infile |-> infile,
                                    name |-> outFile(info),
                                    picture |-> info.cover,
                                    returncode |-> returncode]),
                !.coverart = @ \/ info.cover,
                !.popped = IF info.cover THEN @ \cup {info.tracknumber} ELSE @]

\* A wait that raises on a nonzero return code.
wait_Checked(returncode) == returncode # 0

\* proc.wait(): whether the statement raises; the return code it gives is
\* dropped.
wait(returncode) == FALSE

\* The loop of convert2FLAC over what listdir yields; the encoder fails for
\* the file of track tracks.fail.
RECURSIVE convertLoop(_, _, _)
convertLoop(files, tracks, acc) ==
    IF files = << >> THEN acc
    ELSE LET infile == Head(files)
             returncode == IF infile.track = tracks.fail THEN 1 ELSE 0
         IN  IF infile.track \notin tracks.keys
             THEN convertLoop(Tail(files), tracks, remove(acc, infile))
             ELSE IF wait(returncode)
             THEN [flac(acc, infile, Info(tracks, infile.track), returncode)
                       EXCEPT !.returned = FALSE]
             ELSE convertLoop(Tail(files), tracks,
                      flac(acc, infile, Info(tracks, infile.track), returncode))

\* convert2FLAC(dev, srcdir, outdir, tracks): the files removed, the encoder
\* runs in order, the records of tracks it changed, whether the function
\* returned, and whether a cover image was moved to outdir at its end
\* (coverart is not None).
convert2FLAC(srcdir, tracks) ==
    LET acc == convertLoop(listdir(srcdir), tracks,
                   [removed |-> {}, cmds |-> << >>, coverart |-> FALSE,
                    popped |-> {}, returned |-> TRUE])
    IN  [acc EXCEPT !.coverart = @ /\ acc.returned]

\* Titles as sequences of characters, with and without a path separator.
Titles == {<< >>, <<"a">>, <<"/">>, <<"a", "/", "b">>}

\* Inputs of convert2FLAC: a directory of up to two different entries, a
\* tag set with records for any of the track numbers, and the track whose
\* encoder run exits with a nonzero code (0: none does).
Directories ==
    {dir \in SeqsUpTo(Entries, 0, 2) : \A j, k \in DOMAIN dir : j # k => dir[j] # dir[k]}

ConvertInputs ==
    [fn : {"convert2FLAC"},
     dir : Directories,
     arg : [keys : SUBSET (1..MaxTracks), title : Titles,
            totaldiscs : 1..MaxMediums, discnumber : 1..MaxMediums,
            cover : BOOLEAN, fail : 0..MaxTracks],
     done : {FALSE},
     out : {[removed |-> {}, cmds |-> << >>, coverart |-> FALSE,
             popped |-> {}, returned |-> FALSE]}]

ApplyConvert2FLAC ==
    /\ call.fn = "convert2FLAC"
    /\ ~call.done
    /\ call' = [call EXCEPT !.done = TRUE,
                            !.out = convert2FLAC(call.dir, call.arg)]
    /\ UNCHANGED program

\* ================================================== library: gen_tmpdir
\* The readings of time.time() two sessions can get when they start.
MaxClock == 1
Clock == 0..MaxClock

\* The device path as the characters of the string.
DevPath(d) == <<"/", "d", "e", "v", "/">> \o << d >>

\* hashlib.md5(text).hexdigest(): equal texts give equal digests; digests of
\* different texts are taken to differ.
md5(text) == text

\* utils.gen_tmpdir(dev): the directory name is the digest of
\* f"{time.time()}{dev}"; os.makedirs(..., exist_ok=True) accepts a directory
\* that exists.
gen_tmpdir(now, dev) == md5(str(now) \o DevPath(dev))

\* ripcd.randomHash(): the digest of str(time.time()).
randomHash(now) == md5(str(now))

\* The directory a session on dev gets at clock reading now, by the function
\* that names it.
TmpdirBy(by, now, dev) ==
    IF by = "gen_tmpdir" THEN gen_tmpdir(now, dev) ELSE randomHash(now)

\* Two sessions, each with its device and the clock reading at its start.
TmpdirInputs ==
    [fn : {"tmpdir"},
     by : {"gen_tmpdir", "randomHash"},
     arg : [dev1 : Devs, now1 : Clock, dev2 : Devs, now2 : Clock],
     done : {FALSE},
     out : {<< <<"">>, <<"">> >>}]

ApplyTmpdir ==
    /\ call.fn = "tmpdir"
    /\ ~call.done
    /\ call' = [call EXCEPT !.done = TRUE,
                            !.out = << TmpdirBy(call.by, call.arg.now1, call.arg.dev1),
                                       TmpdirBy(call.by, call.arg.now2, call.arg.dev2) >>]
    /\ UNCHANGED program

\* ============================================ library: event classification
\* The repository has two watchdog loops over the same udev properties:
\* udev_watchdog.UdevWatchdog (started by ui/main.py) and
\* ripper.RipperWatchdog (started by systemtray/main.py).
Watchdogs == {"UdevWatchdog", "RipperWatchdog"}

\* The chain of tests of RipperWatchdog.run, in the code's order: ID_CDROM is
\* not read.
RipperWatchdogClassify(ev) ==
    IF ev.devname = "none" THEN "skip"
    ELSE IF ev.eject THEN "eject"
    ELSE IF ev.ready0 THEN "eject"
    ELSE IF ~ev.change THEN "skip"
    ELSE IF ev.status THEN "skip"
    ELSE "insert"

\* What one pass of run() does with the event poll returned.
run(watchdog, ev) ==
    IF watchdog = "UdevWatchdog" THEN Classify(ev) ELSE RipperWatchdogClassify(ev)

ClassifyInputs ==
    [fn : {"run"},
     watchdog : Watchdogs,
     arg : Events,
     done : {FALSE},
     out : {"none"}]

ApplyRun ==
    /\ call.fn = "run"
    /\ ~call.done
    /\ call' = [call EXCEPT !.done = TRUE, !.out = run(call.watchdog, call.arg)]
    /\ UNCHANGED program

\* ---- the library's specification
LibInputs ==
    MediumInputs \cup ReleaseInputs \cup ParseInputs \cup ProgressInputs
        \cup ConvertInputs \cup ClassifyInputs \cup TmpdirInputs
        \cup LoopInputs

LibInit ==
    /\ Boot
    /\ impl = "disc_select"
    /\ call \in LibInputs

LibNext ==
    \/ ApplyFilterMediumByISRCs
    \/ ApplyFilterReleases
    \/ ApplyParseRelease
    \/ ApplyProgressLine
    \/ ApplyCdparanoiaProgress
    \/ ApplyConvert2FLAC
    \/ ApplyRun
    \/ ApplyTmpdir

LibSpec == LibInit /\ [][LibNext]_vars

\* ================================================================ claims
\* A queued signal for session i is waiting for the main thread.
Pending(i) ==
    \E k \in 1..Len(queue) : queue[k].type # "HANDLE_DISC" /\ queue[k].sid = i

\* Nothing of session i can take another step by itself: no thread of it is
\* running, no dialog of it is open, no timer of it is active and no signal
\* of it is queued.
Quiescent(i) ==
    /\ sess[i].meta \in {"done", "dead"}
    /\ sess[i].sel # "open"
    /\ ~sess[i].timer
    /\ sess[i].sub \notin {"open", "opened"}
    /\ sess[i].rip \in {"none", "done", "failed"}
    /\ ~Pending(i)

C2_NoSessionAfterEject ==
    \A d \in Devs :
        ejected[d] =>
            /\ mounted[d].k # "handler"
            /\ \A i \in SessIds : sess[i].dev = d => Quiescent(i)

C4_CancelCleansAndEjects ==
    \A i \in SessIds :
        (sess[i].cancelled /\ Quiescent(i)) =>
            (~sess[i].tmpdir /\ sess[i].leaked = 0 /\ sess[i].ejects >= 1)

\* ---------------------------------------------------------------- C5
\* C5: once a cancellation has been delivered to a session's Ripper
\* (_dead is set), the session starts no further subprocess: no step
\* launches the rip tool and no step runs the encoder.
C5_NoSubprocessAfterCancel ==
    [][\A i \in SessIds :
          sess[i].dead =>
              /\ ~(sess[i].proc = "none" /\ sess'[i].proc = "running")
              /\ ~(~sess[i].flac /\ sess'[i].flac)]_vars

\* ---------------------------------------------------------------- C6
\* The parts of a session a cancellation can have an effect on.
Effects(s) == <<s.rip, s.proc, s.tmpdir, s.leaked, s.flac, s.ejects>>

C7_EjectKillsRip ==
    [][\A d \in Devs :
          (/\ mounted[d].k = "handler"
           /\ mounted'[d].k = "absent"
           /\ sess[mounted[d].sid].proc = "running")
          => sess'[mounted[d].sid].proc = "killed"]_vars

\* ---------------------------------------------------------------- C8
\* The FINISHED signal of the lookup of session i is still queued.
PendingSearch(i) ==
    \E k \in 1..Len(queue) : queue[k].type = "META_FINISHED" /\ queue[k].sid = i

\* C8 as stated: a lookup that returned exactly one candidate never opens
\* the selection dialog (the session never enters AWAITING_SELECTION).
C8_SingleSkipsSelection ==
    \A i \in SessIds :
        (sess[i].result = "list" /\ sess[i].nrel = 1) => sess[i].sel = "none"

\* C8 as amended: also with exactly one candidate the session enters
\* AWAITING_SELECTION (process_search opens the dialog with its countdown),
\* and every Ripper is started by the dialog's result, after the dialog has
\* closed, never straight from the lookup.
C8_SingleStillSelects ==
    \A i \in SessIds :
        /\ (sess[i].result = "list" /\ sess[i].nrel = 1 /\ ~PendingSearch(i))
               => sess[i].sel \in {"open", "closed"}
        /\ sess[i].rip # "none" => sess[i].sel = "closed"

\* A single-candidate session went through the dialog and is extracting.
C8_Witness ==
    \E i \in SessIds :
        /\ sess[i].nrel = 1
        /\ sess[i].sel = "closed"
        /\ sess[i].rip = "progress"
        /\ sess[i].release = 0

\* ---------------------------------------------------------------- C9
\* C9: when the countdown expires and the session proceeds to EXTRACTING,
\* the Ripper is created with the first candidate (row 0), whichever row is
\* highlighted in the dialog at that moment.
C9_TimeoutRipsFirst ==
    [][\A i \in SessIds :
          (/\ sess[i].timer /\ ~sess'[i].timer
           /\ sess'[i].timeout = sess[i].timeout - 1
           /\ sess[i].rip = "none" /\ sess'[i].rip = "start")
          => sess'[i].release = 0]_vars

\* ---------------------------------------------------------------- C10
\* C10 as stated: a session whose selection dialog is open always
\* eventually leaves AWAITING_SELECTION, whatever the user does.
C10_AlwaysLeavesSelection ==
    \A i \in 1..MaxEvents :
        (i \in SessIds /\ sess[i].sel = "open")
            ~> (i \in SessIds /\ sess[i].sel = "closed")

\* C10 as amended: a session whose selection dialog is open and counting
\* down eventually leaves AWAITING_SELECTION unless the user presses Wait,
\* which stops the countdown; after Wait the dialog stays until Save, Ignore
\* or an eject closes it.
C10_LeavesUnlessWait ==
    \A i \in 1..MaxEvents :
        (i \in SessIds /\ sess[i].sel = "open" /\ sess[i].timer)
            ~> (i \in SessIds /\ (sess[i].sel = "closed" \/ ~sess[i].timer))

\* The countdown ran out with no input and closed the dialog.
C10_Witness ==
    \E i \in SessIds :
        /\ sess[i].sel = "closed"
        /\ sess[i].timeout = 0
        /\ ~sess[i].timer
        /\ ~sess[i].cancelled

\* ---------------------------------------------------------------- C11
\* The session was in SUBMIT_PENDING and the dialog finished with IGNORE:
\* no lookup runs and no Ripper exists.
C11_Ignored(i) ==
    /\ sess[i].sub = "closed"
    /\ ~PendingSearch(i)
    /\ sess[i].cancelled
    /\ sess[i].result = "url"
    /\ sess[i].meta = "done"
    /\ sess[i].rip = "none"

\* C11: a lookup that ended with the submission url opens the SubmitDisc
\* dialog (SUBMIT_PENDING); when the dialog finishes with IGNORE the session
\* is cancelled with no lookup and no Ripper started, then or later; when it
\* finishes with SUBMITTED a new lookup for the same device starts.
C11_SubmitPending ==
    /\ [](\A i \in SessIds :
             (sess[i].result = "url" /\ ~PendingSearch(i)) => sess[i].sub # "none")
    /\ [][\A i \in SessIds :
             /\ (sess[i].sub \in {"open", "opened"} /\ sess'[i].sub = "closed")
                    => \/ C11_Ignored(i)'
                       \/ /\ sess[i].sub = "opened"
                          /\ sess'[i].cancelled = sess[i].cancelled
                          /\ sess'[i].dev = sess[i].dev
                          /\ sess'[i].meta = "start"
                          /\ sess'[i].result = "none"
                          /\ sess'[i].rip = "none"
             /\ C11_Ignored(i) => C11_Ignored(i)']_vars

\* After a 'submitted' retry the second lookup was not catalogued either and
\* the user ignored the disc.
C11_Witness ==
    \E i \in SessIds : C11_Ignored(i) /\ sess[i].leaked = 1

\* C12: searchMusicBrainz hands back the submission url for a service error
\* only if the service said the disc id is unknown; after any other service
\* error the lookup result is not the submission url and no submit dialog is
\* opened for it.
C12_OtherErrorsNotSubmission ==
    \A i \in SessIds :
        sess[i].resp \in OtherErrors
            => /\ sess[i].result # "url"
               /\ sess[i].sub = "none"

\* ---------------------------------------------------------------- C13
\* The medium that carries ISRC A on track 1 and ISRC B on track 2 and has as
\* many tracks as the disc.
C13_Matching(m) ==
    /\ m.count = MaxTracks
    /\ m.tracks[1].haslist /\ "A" \in m.tracks[1].isrcs
    /\ m.tracks[2].haslist /\ "B" \in m.tracks[2].isrcs

\* C13: filterMediumByISRCs gives 0 matches to every medium whose track count
\* differs from the disc's, whatever ISRCs its tracks carry; and for the disc
\* [A, B, ''] with two mediums, one of the disc's track count matching A and
\* B and one with a track less, it returns the former in either list order.
C13_TrackCountRanks ==
    (call.fn = "filterMediumByISRCs" /\ call.done)
        => /\ \A k \in 1..Len(call.arg) :
                  call.arg[k].count # Len(call.disc) => call.out.scores[k] = 0
           /\ \A k \in 1..Len(call.arg) :
                  ( /\ call.disc = DiscAB
                    /\ Len(call.arg) = 2
                    /\ C13_Matching(call.arg[k])
                    /\ call.arg[3 - k].count = MaxTracks - 1 )
                      => /\ call.out.found
                         /\ call.out.index = k
                         /\ call.out.matches = 2

C13_Witness ==
    /\ call.fn = "filterMediumByISRCs" /\ call.done
    /\ call.disc = DiscAB
    /\ Len(call.arg) = 2
    /\ call.arg[1] = Medium(CD, TracksAB(MaxTracks - 1))
    /\ C13_Matching(call.arg[2])
    /\ call.out.index = 2
    /\ call.out.scores = <<0, 2>>

\* ---------------------------------------------------------------- C14
\* C14: when no candidate of a two-release response has a match (as for a
\* disc whose ISRCs are all empty), filterReleases returns the first release
\* of the response and does not raise.
C14_TieReturnsFirst ==
    ( /\ call.fn = "filterReleases" /\ call.done
      /\ Len(call.arg) = 2
      /\ \/ call.disc = DiscBlank
         \/ \A i \in 1..2 : Candidate(call.disc, call.arg[i]).score = 0 )
        => /\ call.out.kind = "release"
           /\ call.out.index = 1

C14_Witness ==
    /\ call.fn = "filterReleases" /\ call.done
    /\ call.disc = DiscBlank
    /\ Len(call.arg) = 2
    /\ call.arg[1] # call.arg[2]
    /\ \A i \in 1..2 : Candidate(call.disc, call.arg[i]) = [kept |-> TRUE, score |-> 0]
    /\ call.out = [kind |-> "release", index |-> 1]

\* ---------------------------------------------------------------- C15
C15_HasCD(release) == \E k \in 1..Len(release) : Contains(CD, release[k].format)

\* C15: if some release of the response has a medium whose format contains
\* "CD", filterReleases returns one that has, and none of the releases that
\* have one scores higher than the returned release.
C15_BestOfKept ==
    (call.fn = "filterReleases" /\ call.done)
        => LET kept == {i \in 1..Len(call.arg) : C15_HasCD(call.arg[i])}
           IN  kept # {}
                 => /\ call.out.kind = "release"
                    /\ call.out.index \in kept
                    /\ \A j \in kept :
                          Candidate(call.disc, call.arg[j]).score
                              <= Candidate(call.disc, call.arg[call.out.index]).score

\* ---------------------------------------------------------------- C16
\* The chosen medium's tracks carry the numbers 1..n, n its track count.
C16_Numbered(release) ==
    {track_num(release.tracks[i]) : i \in 1..Len(release.tracks)}
        = 1..Len(release.tracks)

\* C16: parseRelease over a release whose chosen medium has n tracks numbered
\* 1..n returns a tag mapping whose track keys are exactly 1..n, each record
\* with an album, an albumartist and its own tracknumber, none of them None.
C16_KeysAreTrackNumbers ==
    (call.fn = "parseRelease" /\ call.done /\ C16_Numbered(call.arg))
        => /\ call.out.kind = "tags"
           /\ DOMAIN call.out.tracks = 1..Len(call.arg.tracks)
           /\ \A k \in DOMAIN call.out.tracks :
                  /\ call.out.tracks[k].album # None
                  /\ call.out.tracks[k].albumartist # None
                  /\ call.out.tracks[k].tracknumber = k

\* ---------------------------------------------------------------- C17
\* Two tracks of the medium have the same number once converted by int()
\* (a missing number counts as 0).
C17_Duplicate(release) ==
    \E i, j \in 1..Len(release.tracks) :
        i # j /\ track_num(release.tracks[i]) = track_num(release.tracks[j])

\* C17: parseRelease returns the empty tag set whenever two tracks of the
\* medium have the same number, and a tag mapping it returns holds the record
\* of every track under that track's number (none was overwritten).
C17_DuplicatesGiveEmpty ==
    (call.fn = "parseRelease" /\ call.done)
        => /\ C17_Duplicate(call.arg) => call.out.kind = "empty"
           /\ call.out.kind = "tags"
                 => \A i \in 1..Len(call.arg.tracks) :
                        /\ track_num(call.arg.tracks[i]) \in DOMAIN call.out.tracks
                        /\ call.out.tracks[track_num(call.arg.tracks[i])].src = i

\* ---------------------------------------------------------------- C18
\* The line "outputting to output.track03.wav.cdda".
C18_QuotedLine == <<Outputting, "output.", Track, "0", "3", ".wav.cdda">>

\* The bar has a character that is not a blank.
C18_Marked(bar) == \E p \in 1..Len(bar) : bar[p] # Blank

\* Offset of the first character of the bar that is not a blank.
C18_Offset(bar) ==
    CHOOSE p \in 0..(Len(bar) - 1) :
        bar[p + 1] # Blank /\ \A q \in 1..p : bar[q] = Blank

\* v is offset / length as a percentage, to the nearest integer.
C18_IsPercent(v, offset, length) ==
    /\ v \in 0..100
    /\ 2 * (v * length - 100 * offset) <= length
    /\ 2 * (100 * offset - v * length) <= length

C18_BarLinesMarked ==
    {BarLine(pre, bar, Pipe) :
        pre \in {<< >>, <<"##: -2 [wrote] @ 1234">>},
        bar \in {b \in Bars : C18_Marked(b)}}

\* C18 as stated: the quoted line gives the current-track event with number
\* 3, every bracketed line with a marked bar gives the track-size event of
\* offset / length, and every other line gives no event.
C18_TwoShapes ==
    (call.fn = "progress_line" /\ call.done)
        => /\ call.arg = C18_QuotedLine
                 => call.out.event = [signal |-> "CUR_TRACK", value |-> 3]
           /\ \A bar \in Bars :
                  (C18_Marked(bar) /\ \E l \in C18_BarLinesMarked :
                        l = call.arg /\ ProgressGroup(l) = bar)
                     => /\ call.out.event.signal = "TRACK_SIZE"
                        /\ C18_IsPercent(call.out.event.value, C18_Offset(bar), Len(bar))
           /\ call.arg \notin (CurrentLines \cup C18_BarLinesMarked)
                 => call.out.event = NoEvent

\* "outputting to track<digits>..." lines, as cdparanoia --batch writes them.
C18_BatchLines ==
    {<<Outputting, Track>> \o num \o <<rest>> :
        num \in SeqsUpTo({"0", "1", "3"}, 1, 2), rest \in {".cdda.wav", ".wav.cdda"}}

\* C18 amended: "outputting to track03..." gives the current-track event with
\* number 3 (and so for the other numbers); a bracketed line with a marked
\* bar gives the track-size event of offset / length when its offset differs
\* from the offset reported last, which it then becomes; every other line,
\* the quoted "outputting to output.track03.wav.cdda" among them, gives no
\* event and leaves the offset reported last as it is.
C18_Shapes ==
    (call.fn = "progress_line" /\ call.done)
        => /\ \A rest \in {".cdda.wav", ".wav.cdda"} :
                  call.arg = <<Outputting, Track, "0", "3", rest>>
                     => call.out.event = [signal |-> "CUR_TRACK", value |-> 3]
           /\ call.arg \in C18_BatchLines
                 => /\ call.out.event.signal = "CUR_TRACK"
                    /\ call.out.event.value = int(DigitRun(call.arg, 3))
                    /\ call.out.prog = call.prog
           /\ \A bar \in Bars :
                  (C18_Marked(bar) /\ \E l \in C18_BarLinesMarked :
                        l = call.arg /\ ProgressGroup(l) = bar)
                     => IF C18_Offset(bar) # call.prog
                        THEN /\ call.out.event.signal = "TRACK_SIZE"
                             /\ C18_IsPercent(call.out.event.value,
                                              C18_Offset(bar), Len(bar))
                             /\ call.out.prog = C18_Offset(bar)
                        ELSE call.out = [event |-> NoEvent, prog |-> call.prog]
           /\ call.arg \notin (C18_BatchLines \cup C18_BarLinesMarked)
                 => call.out = [event |-> NoEvent, prog |-> call.prog]

C18_Witness ==
    /\ call.fn = "progress_line" /\ call.done
    /\ call.prog = 0
    /\ call.arg = BarLine(<< >>, <<Blank, Blank, ">">>, Pipe)
    /\ call.out = [event |-> [signal |-> "TRACK_SIZE", value |-> 67], prog |-> 2]

\* ---------------------------------------------------------------- C19
\* The rip of session i ended with a nonzero return code and run() went on
\* to its end without the conversion.
C19_Finalized(i) ==
    /\ sess[i].proc = "exit1"
    /\ sess[i].rip = "done"
    /\ ~sess[i].flac
    /\ ~sess[i].tmpdir
    /\ sess[i].ejects = 1

\* C19: once cdparanoia has exited with a nonzero code convert2FLAC is not
\* run for the session, and the session goes on to delete its scratch
\* directory and to eject the disc.
C19_FailedRipFinalizes ==
    /\ [](\A i \in SessIds :
             sess[i].proc = "exit1" => ~sess[i].flac /\ sess[i].rip # "convert")
    /\ \A i \in 1..MaxEvents :
          (i \in SessIds /\ sess[i].proc = "exit1")
              ~> (i \in SessIds /\ C19_Finalized(i))

C19_Witness ==
    \E i \in SessIds : C19_Finalized(i)

\* ---------------------------------------------------------------- C20
\* C20: a session whose Ripper thread has ended, by returning from run() or
\* by an exception in it, has issued the eject command for its device.
C20_FailureStillEjects ==
    \A i \in SessIds :
        sess[i].rip \in {"done", "failed"} => sess[i].ejects >= 1

\* ---------------------------------------------------------------- C21
\* C21: no error of a session, the termination an eject event asks for
\* included, ends the watchdog loop.
C21_WatchdogSurvives ==
    wd # "crashed"

\* ---------------------------------------------------------------- C22
\* C22: once the shutdown flag is set the watchdog loop ends: it handles at
\* most the event of the poll it is in, and after it has returned it
\* handles none.
C22_LoopExits ==
    /\ (wd = "quit") ~> (wd \in {"exited", "crashed"})
    /\ [][wd = "quit" /\ nEvents' # nEvents => wd' \in {"exited", "crashed"}]_vars
    /\ [][wd = "exited" => wd' = "exited" /\ nEvents' = nEvents]_vars

C22_Witness ==
    /\ wd = "exited"
    /\ nEvents > 0

\* ---------------------------------------------------------------- C23
\* C23: the writes of _mounted by the watchdog thread (placeholder, pop) and
\* by the handle_disc slot of the main thread do not undo one another: a
\* handler is stored only over the placeholder its insert left, never in the
\* place of an entry an eject has popped in between.
C23_NoStaleWrite ==
    [][\A d \in Devs :
          (mounted'[d].k = "handler" /\ mounted'[d] # mounted[d])
              => mounted[d] = RegNone]_vars

\* ---------------------------------------------------------------- C24
\* C24: the working directory of a session exists exactly while the session
\* extracts or converts (its Ripper exists and has not reached cleanup yet):
\* there is none while the lookup runs, while a dialog is open, or after
\* cleanup.
C24_TmpdirIffExtracting ==
    \A i \in SessIds :
        sess[i].tmpdir <=>
            sess[i].rip \in {"start", "launch", "progress", "convert", "cleanup"}

\* ---------------------------------------------------------------- C25
\* C25: a session whose fingerprinting failed on a read error of the drive
\* never gets a rip process, and an eject of its device is attempted all the
\* same.
C25_ReadErrorAborts ==
    /\ [](\A i \in SessIds :
             sess[i].resp = "read_error"
                 => sess[i].rip = "none" /\ sess[i].proc = "none")
    /\ \A i \in 1..MaxEvents :
          (i \in SessIds /\ sess[i].resp = "read_error")
              ~> (i \in SessIds /\ sess[i].ejects >= 1)

\* ---------------------------------------------------------------- C26
\* The session registered for device d has ended: its Ripper returned, or a
\* cancellation reached it and nothing of it runs any more.
C26_Ended(d) ==
    /\ mounted[d].k = "handler"
    /\ Quiescent(mounted[d].sid)
    /\ sess[mounted[d].sid].rip = "done" \/ sess[mounted[d].sid].cancelled

\* C26: a qualifying insert for a device whose session has ended makes a new
\* session (HANDLE_DISC is emitted for it), whether or not an eject event
\* was seen in between.
C26_InsertAfterEndStartsSession ==
    [][\A d \in Devs :
          (C26_Ended(d) /\ inserts'[d] = inserts[d] + 1)
              => emits'[d] = emits[d] + 1]_vars

\* ---------------------------------------------------------------- C27
\* The encoder runs of a finished convert2FLAC call that read file f.
C27_Runs(f) == {k \in DOMAIN call.out.cmds : call.out.cmds[k].infile = f}

\* C27: convert2FLAC handles every raw track file of the working directory
\* once: a file whose track number has no record in the tag set is deleted
\* and never given to the encoder, a file with a record is given to the
\* encoder exactly once and not deleted; entries that are no raw track files
\* are left alone.
C27_EachFileOnce ==
    (call.fn = "convert2FLAC" /\ call.done) =>
        \A k \in DOMAIN call.dir :
            LET f == call.dir[k]
            IN  IF ~IsRaw(f)
                THEN f \notin call.out.removed /\ C27_Runs(f) = {}
                ELSE IF f.track \notin call.arg.keys
                THEN f \in call.out.removed /\ C27_Runs(f) = {}
                ELSE f \notin call.out.removed /\ Cardinality(C27_Runs(f)) = 1

\* A directory with a raw file that has a record and one that has none.
C27_Witness ==
    /\ call.fn = "convert2FLAC" /\ call.done
    /\ Len(call.dir) = 2
    /\ Len(call.out.cmds) = 1
    /\ Cardinality(call.out.removed) = 1

\* ---------------------------------------------------------------- C28
\* The segments of a file name below the output directory.
C28_Segments(name) == Cardinality({k \in DOMAIN name : name[k] = "/"}) + 1

\* C28: the name of every flac file is one path segment, 'NN - Title.flac'
\* with the disc number and '-' in front exactly when the release has more
\* than one disc.
C28_OneSegmentName ==
    (call.fn = "convert2FLAC" /\ call.done) =>
        \A k \in DOMAIN call.out.cmds :
            LET c == call.out.cmds[k]
                n == Len(c.name)
            IN  /\ C28_Segments(c.name) = 1
                /\ c.name[n] = ".flac"
                /\ (c.name[2] = "-") <=> (call.arg.totaldiscs > 1)
                /\ \E j \in 1..n : c.name[j] = " - "

\* ---------------------------------------------------------------- C29
\* This step emits REMOVE_DISC (the report "the disc is finished" to the
\* progress dialog) for session i.
C29_Reports(i) ==
    /\ Len(queue') > Len(queue)
    /\ queue'[Len(queue')].type = "REMOVE_DISC"
    /\ queue'[Len(queue')].sid = i

\* C29: the end of a session is reported to the progress dialog only after
\* its scratch directory was deleted and the eject was issued, never while
\* the conversion or the cleanup is still to come.
C29_ReportAfterCleanupAndEject ==
    [][\A i \in SessIds :
          C29_Reports(i)
              => /\ ~sess'[i].tmpdir
                 /\ sess'[i].ejects >= 1
                 /\ sess'[i].rip \notin {"convert", "cleanup", "eject"}]_vars

\* ---------------------------------------------------------------- C30
\* C30: when the image list cannot be fetched, the download fails or no
\* image is flagged front, getCoverArt gives None and parseRelease returns
\* what it returns for the release otherwise, with no cover-art entry in any
\* record.
C30_NoCoverStillTags ==
    (call.fn = "parseRelease" /\ call.done /\ call.arg.image # "front") =>
        /\ getCoverArt(call.arg.image) = None
        /\ call.out = parseTracks(call.disc, call.arg, None, 1, << >>)
        /\ \A n \in DOMAIN call.out.tracks : call.out.tracks[n].cover = None

\* ---------------------------------------------------------------- C31
\* C31: a watchdog loop takes an event for an insert (the only events it
\* makes sessions for) only if the event has a device path and the optical
\* capability flag, no eject request, no tray-ready 0, the media-changed flag
\* and no media status; an event with path and capability that carries an
\* eject request or tray-ready 0 is an eject whatever else it carries; an
\* event without path or capability is dropped.
C31_QualifyingEvents ==
    (call.fn = "run" /\ call.done) =>
        LET ev == call.arg
            optical == ev.devname # "none" /\ ev.cdrom
        IN  /\ call.out = "insert" <=>
                  (optical /\ ~ev.eject /\ ~ev.ready0 /\ ev.change /\ ~ev.status)
            /\ call.out = "eject" <=> (optical /\ (ev.eject \/ ev.ready0))
            /\ ~optical => call.out = "skip"

\* ---------------------------------------------------------------- C32
\* The kept releases of a finished filterReleases call that have the highest
\* score of the kept ones, when that score is above zero.
C32_Best ==
    LET c(i) == Candidate(call.disc, call.arg[i])
        kept == {i \in 1..Len(call.arg) : c(i).kept}
    IN  {i \in kept : c(i).score > 0 /\ \A j \in kept : c(j).score <= c(i).score}

\* C32: when two or more kept releases share the highest score above zero,
\* filterReleases returns the one of them that comes first in the response.
C32_FirstOfTied ==
    (call.fn = "filterReleases" /\ call.done /\ Cardinality(C32_Best) >= 2) =>
        /\ call.out.kind = "release"
        /\ \A j \in C32_Best : call.out.index <= j
        /\ call.out.index \in C32_Best

\* ---------------------------------------------------------------- C33
\* C33: an encoder run of convert2FLAC that exits with a nonzero code does
\* not end the loop: every raw file with a tag record that listdir yields
\* after it still gets its encoder run, the cover image of the records is
\* moved, and the function returns.
C33_EncoderFailureNotFatal ==
    (call.fn = "convert2FLAC" /\ call.done) =>
        LET files == listdir(call.dir)
            cmds == call.out.cmds
        IN  \A k \in DOMAIN files :
                (files[k].track \in call.arg.keys /\ files[k].track = call.arg.fail)
                    => /\ call.out.returned
                       /\ call.out.coverart = call.arg.cover
                       /\ \A j \in (k + 1)..Len(files) :
                              files[j].track \in call.arg.keys
                                  => \E n \in DOMAIN cmds :
                                        /\ cmds[n].infile = files[j]
                                        /\ cmds[n].returncode = 0

\* The first of two encoder runs failed, the second ran, the cover was moved.
C33_Witness ==
    /\ call.fn = "convert2FLAC" /\ call.done
    /\ Len(call.out.cmds) = 2
    /\ call.out.cmds[1].returncode = 1
    /\ call.out.cmds[2].returncode = 0
    /\ call.out.coverart
    /\ call.out.returned

\* ---------------------------------------------------------------- C34
\* Nothing of another drive than a changes in this step: the sessions of
\* other devices (phase, rip process, scratch directory), their registry
\* entries and their widgets in the progress dialog.
C34_OthersUnchanged(a) ==
    /\ \A j \in SessIds : sess[j].dev # a => sess'[j] = sess[j]
    /\ \A b \in Devs \ {a} :
          /\ mounted'[b] = mounted[b]
          /\ (b \in widgets') <=> (b \in widgets)

\* C34: with sessions on two drives, a confirmed cancel for device a and an
\* eject event of device a change nothing of the other drive's session.
C34_CancelAndEjectAreLocal ==
    [][\A a \in Devs :
          (ProgressCancel(a) \/ WdEjectHandler(a) \/ WdEjectNone(a))
              => C34_OthersUnchanged(a)]_vars

\* The rip of sr0 was killed by its cancel and sr0 was ejected, while the rip
\* of sr1 is running and registered.
C34_Witness ==
    /\ sess[1].proc = "killed"
    /\ mounted["sr0"] = RegAbsent
    /\ sess[2].proc = "running"
    /\ mounted["sr1"] = RegHandler(2)
    /\ sess[2].tmpdir

\* ---------------------------------------------------------------- C35
\* C35: convert2FLAC only reads the tag set: after the call every record is
\* what parseRelease built, the 'cover-art' entry included.
C35_TagSetUnchanged ==
    (call.fn = "convert2FLAC" /\ call.done) => call.out.popped = {}

\* ---------------------------------------------------------------- C36
\* C36: two sessions never get the same working directory, whatever their
\* devices and whatever the clock shows when each of them starts.
C36_DirectoriesDiffer ==
    (call.fn = "tmpdir" /\ call.done) => call.out[1] # call.out[2]

\* ---------------------------------------------------------------- C37
\* The disc-removed signals of device d waiting in the queue.
C37_Removes(q, d) ==
    Cardinality({k \in DOMAIN q : q[k].type = "REMOVE_DISC" /\ q[k].dev = d})

\* This step is the end of cdparanoia_progress for session i.
C37_LoopEnds(i) == sess[i].rip = "progress" /\ sess'[i].rip # "progress"

\* C37: once the rip process has exited or was killed, the progress loop of
\* its session ends; when it ends the process is not running any more, and
\* the thread emits the track size 100 and then one disc-removed signal for
\* its device, which no other step of a Ripper thread emits.
C37_ProgressLoopEnds ==
    /\ \A i \in 1..MaxEvents :
          (i \in SessIds /\ sess[i].rip = "progress" /\ sess[i].proc # "running")
              ~> (i \in SessIds /\ sess[i].rip # "progress")
    /\ [][\A i \in SessIds :
             C37_LoopEnds(i)
                 => /\ sess[i].proc # "running"
                    /\ Len(queue') = Len(queue) + 2
                    /\ SubSeq(queue', 1, Len(queue)) = queue
                    /\ queue'[Len(queue') - 1]
                           = Msg("TRACK_SIZE", i, sess[i].dev, << PyInt(100) >>)
                    /\ queue'[Len(queue')] = Msg("REMOVE_DISC", i, sess[i].dev, << >>)
                    /\ C37_Removes(queue', sess[i].dev)
                           = C37_Removes(queue, sess[i].dev) + 1]_vars
    /\ [][\A d \in Devs :
             C37_Removes(queue', d) > C37_Removes(queue, d)
                 => \E i \in SessIds : sess[i].dev = d /\ C37_LoopEnds(i)]_vars

\* The rip process of a session was killed and its progress loop has ended.
C37_Witness ==
    \E i \in SessIds :
        /\ sess[i].proc = "killed"
        /\ sess[i].rip \notin {"none", "start", "launch", "progress"}
        /\ C37_Removes(queue, sess[i].dev) = 1

\* ---------------------------------------------------------------- C38
\* This step closes the selection dialog of session i with the result RIP
\* (Save, or the countdown running out): the dialog closes and the session is
\* not marked as cancelled.
C38_FinishesWithRip(i) ==
    /\ sess[i].sel = "open"
    /\ sess'[i].sel = "closed"
    /\ ~sess'[i].cancelled

\* C38: when the selection dialog of a session finishes with RIP, that
\* session starts its extraction with the release of the highlighted row, and
\* no other session changes.
C38_RipReachesRipDisc ==
    [][\A i \in SessIds :
          C38_FinishesWithRip(i)
              => /\ sess'[i].rip = "start"
                 /\ sess'[i].release = sess[i].row
                 /\ \A j \in SessIds \ {i} : sess'[j] = sess[j]]_vars

\* ---------------------------------------------------------------- C39
\* The scratch directories on disk that were made for session s: the one its
\* current lookup holds, and those of its earlier lookups.
C39_Directories(s) == (IF s.tmpdir THEN 1 ELSE 0) + s.leaked

\* C39: a session has at most one scratch directory on disk, and none that
\* an earlier lookup made and the session no longer holds.
C39_OneDirectoryPerSession ==
    \A i \in SessIds :
        /\ C39_Directories(sess[i]) <= 1
        /\ sess[i].leaked = 0

\* ---------------------------------------------------------------- C40
\* The TRACK_SIZE values among the messages, in the order emitted.
C40_Sizes(msgs) ==
    LET ts == SelectSeq(msgs, LAMBDA m : m.type = "TRACK_SIZE")
    IN  [k \in 1..Len(ts) |-> ts[k].args[1].n]

\* C40: parse_progress_line returns nothing or (pos, size) with
\* 0 <= pos < size; a line gives a track-size value only when its pos differs
\* from the position reported last, which it then becomes; every track-size
\* value cdparanoia_progress emits is an integer from 0 to 100, no two
\* values in a row are for the same position, and the last one is 100.
C40_TrackSizeInRange ==
    /\ (call.fn = "progress_line" /\ call.done)
          => LET pos_size == parse_progress_line(call.arg)
             IN  /\ pos_size.found
                       => /\ 0 <= pos_size.pos
                          /\ pos_size.pos < pos_size.size
                 /\ call.out.event.signal = "TRACK_SIZE"
                       => /\ pos_size.found
                          /\ pos_size.pos # call.prog
                          /\ call.out.prog = pos_size.pos
                          /\ call.out.event.value \in 0..100
    /\ (call.fn = "cdparanoia_progress" /\ call.done)
          => LET sizes == C40_Sizes(call.out.emitted)
                 reported == call.out.reported
             IN  /\ \A k \in 1..Len(sizes) : sizes[k] \in 0..100
                 /\ Len(sizes) = Len(reported) + 1
                 /\ \A k \in 1..Len(reported) :
                        reported[k] # (IF k = 1 THEN 0 ELSE reported[k - 1])
                 /\ sizes[Len(sizes)] = 100

\* Two bars with different positions were read: 50, then 75, then the
\* closing 100.
C40_Witness ==
    /\ call.fn = "cdparanoia_progress" /\ call.done
    /\ C40_Sizes(call.out.emitted) = <<50, 75, 100>>
    /\ call.out.reported = <<2, 3>>

====
